---- MODULE Spec2Model ----
(***************************************************************************)
(* fetch-salesforce (src/library.js): one salesforceSession object, its    *)
(* request executor (_request with its retry recursion), the GET router    *)
(* (_get), and the public operations query, search, batch, insert, update. *)
(*                                                                         *)
(* JavaScript runs one continuation at a time; an async function gives up  *)
(* control only at an await.  Every action below is one such run: from the *)
(* start of a call, or from the completion of the promise it awaits, up to *)
(* the next await or to the function's return or throw.                    *)
(***************************************************************************)
EXTENDS Integers, Sequences, FiniteSets, TLC

\* ------------------------------------------------------------------ bounds
MaxCalls == 2      \* call slots of the session
MaxOps == 2        \* public operations started during one session
MaxChunks == 2     \* the longest input array fills this many chunks
MaxFails == 4      \* transport attempts that fail during one session

\* ------------------------------------------------------- program constants
MaxRetry == 3          \* library.js:65  retry < 3
UrlLimit == 2048       \* library.js:85
BatchChunk == 25       \* library.js:213 splice(0,25)
RecordChunk == 200     \* library.js:250 and :284 splice(0,200)
InstanceUrlLen == 27   \* library.js:9   'https://test.salesforce.com'
ServicesPathLen == 15  \* library.js:18  '/services/data/'
VersionLen == 4        \* library.js:11  '43.0'

\* ------------------------------------------------------- JavaScript values
Undefined == [t |-> "undefined", v |-> <<>>]
False == [t |-> "false", v |-> <<>>]
Arr(s) == [t |-> "array", v |-> s]
Str(id, len) == [t |-> "string", v |-> <<id, len>>]
IsArray(x) == x.t = "array"
Falsy(x) == x.t \in {"undefined", "false"}

\* Array.prototype.concat on an array receiver: an array argument is spread,
\* any other argument is appended as one element.
Concat(a, x) == IF IsArray(x) THEN Arr(a.v \o x.v) ELSE Arr(Append(a.v, x))

Min(a, b) == IF a < b THEN a ELSE b

\* Array.prototype.splice(0, n): the removed head and what stays in the array.
MutSplice(arr, n) ==
  [removed |-> SubSeq(arr, 1, Min(n, Len(arr))),
   rest |-> SubSeq(arr, Min(n, Len(arr)) + 2, Len(arr))]
Splice(arr, n) ==
  [removed |-> SubSeq(arr, 1, Min(n, Len(arr))),
   rest |-> SubSeq(arr, Min(n, Len(arr)) + 1, Len(arr))]

\* _url(path).length
UrlLen(pathLen) == InstanceUrlLen + ServicesPathLen + 1 + VersionLen + 1 + pathLen

\* encodeURIComponent(s).length; encodeURIComponent(undefined) is "undefined"
EncodedLen(s) == IF s.t = "string" THEN s.v[2] ELSE 9

\* "query?q=" + encodeURIComponent(this.soql), as a length
QueryActionLen(s) == 8 + EncodedLen(s)
\* "search?q=" + encodeURIComponent(this.sosl), as a length
SearchActionLen(s) == 9 + EncodedLen(s)

\* _get's test for the batch workaround
Oversized(actionLen) == UrlLen(actionLen) > UrlLimit

VARIABLES
  _requests,       \* closure counter, library.js:16
  _requestErrors,  \* closure counter, library.js:17
  this,            \* the session object returned at library.js:132
  calls,           \* one record per call slot: the running async operation
  detached,        \* _post promises nobody awaits (insert, library.js:252)
  started,         \* public operations started so far
  overlap,         \* the caller starts operations while others are in flight
  failures,        \* transport attempts that have failed so far
  _OAuthUrl,       \* the constructor's first argument, library.js:8
  config,          \* the constructor's second argument, library.js:8-12
  _OAuthVars       \* closure variable, library.js:15 and 29-35

\* What construction sets and no operation changes.
construction == <<_OAuthUrl, config, _OAuthVars>>

vars == <<_requests, _requestErrors, this, calls, detached, started, overlap,
          failures, construction>>

Calls == 1 .. MaxCalls

\* ------------------------------------------------ the executor, _request
\* owner and chunk name the operation and the chunk a request was made for;
\* url is the instance URL its URL starts with.
NoTask ==
  [st |-> "none", method |-> "", retry |-> 0, attempts |-> 0, fails |-> 0,
   nReq |-> 0, nErr |-> 0, owner |-> 0, chunk |-> 0, url |-> Undefined]

\* library.js:57-59: count the request, then hand it to fetch.
MutRequestTry(t, req) ==
  [task |-> [t EXCEPT !.st = "inflight", !.attempts = @ + 1], requests |-> req]
RequestTry(t, req) ==
  [task |-> [t EXCEPT !.st = "inflight", !.attempts = @ + 1], requests |-> req + 1]

\* library.js:65
MutMayRetry(retry) == retry <= MaxRetry
MayRetry(retry) == retry < MaxRetry

\* library.js:62-71: the attempt threw.  Count the error, then either call
\* _request again with retry + 1 or throw to the caller.
MutRequestCatch(t, req, err) ==
  IF MayRetry(t.retry)
    THEN LET again == RequestTry([t EXCEPT !.retry = @ + 1], req)
         IN  [task |-> again.task, requests |-> again.requests,
              errors |-> err + 2, thrown |-> FALSE]
    ELSE [task |-> [t EXCEPT !.st = "failed"], requests |-> req,
          errors |-> err + 2, thrown |-> TRUE]
RequestCatch(t, req, err) ==
  IF MayRetry(t.retry)
    THEN LET again == RequestTry([t EXCEPT !.retry = @ + 1], req)
         IN  [task |-> again.task, requests |-> again.requests,
              errors |-> err + 1, thrown |-> FALSE]
    ELSE [task |-> [t EXCEPT !.st = "failed"], requests |-> req,
          errors |-> err + 1, thrown |-> TRUE]

\* A fresh logical call of _request(method, ...), retry undefined.
NewRequest(method, req) ==
  LET r == RequestTry([NoTask EXCEPT !.method = method], req)
  IN  [task |-> [r.task EXCEPT !.nReq = r.requests - req,
                               !.url = _OAuthVars.instance_url],
       requests |-> r.requests]

\* The transport rejected (or the body was no JSON) for the attempt in flight.
AttemptFailed(t, req, err) ==
  LET r == RequestCatch([t EXCEPT !.fails = @ + 1], req, err)
  IN  [task |-> [r.task EXCEPT !.nReq = @ + (r.requests - req),
                               !.nErr = @ + (r.errors - err)],
       requests |-> r.requests, errors |-> r.errors, thrown |-> r.thrown]

\* The attempt in flight resolved: _request returns the response.
AttemptOk(t) == [t EXCEPT !.st = "ok"]

\* The transport fails an attempt, within the session's budget of failures.
TransportFails == failures < MaxFails /\ failures' = failures + 1

\* ----------------------------------------------------------- call slots
IdleCall ==
  [op |-> "none", st |-> "idle", pc |-> "-", ret |-> Undefined, err |-> "",
   input |-> <<>>, arr |-> <<>>, sent |-> <<>>, acc |-> Undefined,
   task |-> NoTask, served |-> <<>>, before |-> Undefined,
   id |-> 0, req0 |-> 0, err0 |-> 0, lost |-> 0,
   arg |-> Undefined, held |-> Undefined, q |-> Undefined]

Running(c) == calls[c].st = "running"

\* The caller starts an operation in the first slot that holds no running one.
CanStart(c) ==
  /\ started < MaxOps
  /\ ~Running(c)
  /\ \A d \in Calls : d < c => Running(d)
  /\ overlap \/ (detached = <<>> /\ \A d \in Calls : ~Running(d))

Awaiting(c) == Running(c) /\ calls[c].pc = "await" /\ calls[c].task.st = "inflight"

\* A continuation queued by an already settled promise runs before any
\* transport completion is delivered.
NoTick == \A c \in Calls : ~(Running(c) /\ calls[c].pc = "tick")

\* A public operation is called: the slot's record of the call, with the
\* counters as the call finds them.
NewCall(op) ==
  [IdleCall EXCEPT !.op = op, !.st = "running", !.id = started + 1,
                   !.req0 = _requests, !.err0 = _requestErrors]

Resolved(k, v) == [k EXCEPT !.st = "resolved", !.pc = "-", !.ret = v]
Rejected(k, e) == [k EXCEPT !.st = "rejected", !.pc = "-", !.err = e]

\* ------------------------------------------------------------ _get
\* library.js:81-90 for a string action.  An oversized URL takes the batch
\* workaround; this.batch is read off the enclosing scope's this (the arrow
\* functions bind none), which has no batch, so the call throws a TypeError
\* before anything reaches the transport.
Get(actionLen, req) ==
  IF Oversized(actionLen)
    THEN [thrown |-> TRUE, task |-> NoTask, requests |-> req]
    ELSE LET r == NewRequest("get", req)
         IN  [thrown |-> FALSE, task |-> r.task, requests |-> r.requests]

\* ------------------------------------------------------------ the server
\* Page p of a result set: n records (under the name records for a query,
\* searchRecords for a search), and a cursor when more pages follow.
PageRecords(p, n) == [j \in 1 .. n |-> [Id |-> 10 * p + j]]
Cursor(p) == Str(100 + p, 40)
Page(p, n, more) ==
  [records |-> Arr(PageRecords(p, n)),
   nextRecordsUrl |-> IF more THEN Cursor(p + 1) ELSE Undefined]

\* The server answers with an empty page or with a page of two records.
PageLens == {0, 2}

\* The strings a caller passes to query and search: the longest whose search
\* URL still fits (its query URL is one character shorter), and the shortest
\* whose query URL does not.
Soqls == {Str(2, UrlLimit - UrlLen(9)), Str(3, UrlLimit - UrlLen(8) + 1)}

\* library.js:146 and :174: a default parameter stands in for an argument
\* that is undefined.
MutDefault(arg, dflt) == arg
Default(arg, dflt) == IF arg = Undefined THEN dflt ELSE arg

\* ------------------------------------------------------------ query
\* library.js:146-153 up to the await of _get, and 160-164 when _get throws.
QueryStart(c, arg) ==
  /\ CanStart(c)
  /\ LET mySoql == Default(arg, this.soql)
         this1 == [this EXCEPT !.soql = mySoql]
         g == Get(QueryActionLen(mySoql), _requests)
         k == [NewCall("query") EXCEPT !.pc = "await", !.task = g.task,
                                       !.before = this.records, !.arg = arg,
                                       !.held = this.soql, !.q = mySoql]
     IN  IF g.thrown
           THEN /\ this' = [this1 EXCEPT !.records = False]
                /\ calls' = [calls EXCEPT ![c] = Rejected(k, "Query failed!")]
                /\ UNCHANGED _requests
           ELSE /\ this' = this1
                /\ calls' = [calls EXCEPT ![c] = k]
                /\ _requests' = g.requests
  /\ started' = started + 1
  /\ UNCHANGED <<_requestErrors, detached, overlap, failures, construction>>

\* library.js:153-159 from the first page's arrival.  The loop body declares
\* its own `let results` and reads it in its initialiser, so entering the
\* body throws a ReferenceError, which the catch at 160-164 handles.
MutQueryPages(k, res) ==
  LET k1 == [k EXCEPT !.task = AttemptOk(k.task), !.served = Append(@, res)]
  IN  IF res.nextRecordsUrl # Undefined
        THEN [records |-> res.records, call |-> k]
        ELSE [records |-> res.records, call |-> Resolved(k1, res.records)]
QueryPages(k, res) ==
  LET k1 == [k EXCEPT !.task = AttemptOk(k.task), !.served = Append(@, res)]
  IN  IF res.nextRecordsUrl # Undefined
        THEN [records |-> False, call |-> Rejected(k1, "Query failed!")]
        ELSE [records |-> res.records, call |-> Resolved(k1, res.records)]

QueryPage(c, n, more) ==
  /\ Awaiting(c) /\ calls[c].op = "query" /\ NoTick
  /\ LET r == QueryPages(calls[c], Page(Len(calls[c].served) + 1, n, more))
     IN  /\ this' = [this EXCEPT !.records = r.records]
         /\ calls' = [calls EXCEPT ![c] = r.call]
  /\ UNCHANGED <<_requests, _requestErrors, detached, started, overlap, failures,
                 construction>>

\* ------------------------------------------------------------ search
\* library.js:174-181 up to the await of _get, and 188-192 when _get throws.
SearchStart(c, arg) ==
  /\ CanStart(c)
  /\ LET mySosl == Default(arg, this.sosl)
         this1 == [this EXCEPT !.sosl = mySosl]
         g == Get(SearchActionLen(mySosl), _requests)
         k == [NewCall("search") EXCEPT !.pc = "await", !.task = g.task,
                                        !.before = this.searchRecords, !.arg = arg,
                                        !.held = this.sosl, !.q = mySosl]
     IN  IF g.thrown
           THEN /\ this' = [this1 EXCEPT !.searchRecords = False]
                /\ calls' = [calls EXCEPT ![c] = Rejected(k, "Search failed!")]
                /\ UNCHANGED _requests
           ELSE /\ this' = this1
                /\ calls' = [calls EXCEPT ![c] = k]
                /\ _requests' = g.requests
  /\ started' = started + 1
  /\ UNCHANGED <<_requestErrors, detached, overlap, failures, construction>>

\* library.js:181-187.  The loop body throws as in query; without a cursor
\* the function returns this.searchResults, a property nothing ever sets.
SearchPages(k, res) ==
  LET k1 == [k EXCEPT !.task = AttemptOk(k.task), !.served = Append(@, res)]
  IN  IF res.nextRecordsUrl # Undefined
        THEN [searchRecords |-> False, call |-> Rejected(k1, "Search failed!")]
        ELSE [searchRecords |-> res.records, call |-> Resolved(k1, Undefined)]

SearchPage(c, n, more) ==
  /\ Awaiting(c) /\ calls[c].op = "search" /\ NoTick
  /\ LET r == SearchPages(calls[c], Page(Len(calls[c].served) + 1, n, more))
     IN  /\ this' = [this EXCEPT !.searchRecords = r.searchRecords]
         /\ calls' = [calls EXCEPT ![c] = r.call]
  /\ UNCHANGED <<_requests, _requestErrors, detached, started, overlap, failures,
                 construction>>

\* ------------------------------------------------- a failed attempt
\* library.js:62-67: the attempt of an awaited request failed and is retried.
Retry(c) ==
  /\ TransportFails
  /\ Awaiting(c) /\ NoTick
  /\ LET r == AttemptFailed(calls[c].task, _requests, _requestErrors)
     IN  /\ ~r.thrown
         /\ calls' = [calls EXCEPT ![c].task = r.task]
         /\ _requests' = r.requests
         /\ _requestErrors' = r.errors
  /\ UNCHANGED <<this, detached, started, overlap, construction>>

\* library.js:163 and :191: what the catch stores in the last-result field,
\* given what the field holds when the error arrives.
MutPageCatch(held) == held
PageCatch(held) == False

\* library.js:62-69 then the operation's catch: the last attempt failed,
\* _request throws, and query (160-164) or search (188-192) stores false
\* and throws.
PageFail(c) ==
  /\ TransportFails
  /\ Awaiting(c) /\ calls[c].op \in {"query", "search"} /\ NoTick
  /\ LET r == AttemptFailed(calls[c].task, _requests, _requestErrors)
         k == [calls[c] EXCEPT !.task = r.task]
     IN  /\ r.thrown
         /\ _requests' = r.requests
         /\ _requestErrors' = r.errors
         /\ IF k.op = "query"
              THEN /\ this' = [this EXCEPT !.records = PageCatch(@)]
                   /\ calls' = [calls EXCEPT ![c] = Rejected(k, "Query failed!")]
              ELSE /\ this' = [this EXCEPT !.searchRecords = PageCatch(@)]
                   /\ calls' = [calls EXCEPT ![c] = Rejected(k, "Search failed!")]
  /\ UNCHANGED <<detached, started, overlap, construction>>

\* ------------------------------------------------------------ batch
\* The arrays a caller passes in: 1 .. n, one element for each position.
Lens(size) == {1, size + 1, MaxChunks * size}

\* A sub-request: a bare path (a string has no .method) or {method, url}.
BarePath(i) == [method |-> "", url |-> i, versioned |-> FALSE]
Explicit(i) == [method |-> "GET", url |-> i, versioned |-> TRUE]
BatchInput(bare, n) == [i \in 1 .. n |-> IF bare THEN BarePath(i) ELSE Explicit(i)]

\* The arrays a caller passes to batch, as <<bare, length>>: none, bare paths
\* that fill one chunk and two, and explicit sub-requests that fill every
\* chunk to the last.
BatchInputs ==
  {<<TRUE, 0>>, <<TRUE, 1>>, <<TRUE, BatchChunk + 1>>, <<FALSE, MaxChunks * BatchChunk>>}

\* library.js:205-209: bare paths become GETs of the versioned path.
Normalise(requests) ==
  IF requests[1].method = ""
    THEN [i \in 1 .. Len(requests) |->
            [method |-> "GET", url |-> requests[i].url, versioned |-> TRUE]]
    ELSE requests

\* The server's answer to one composite batch: a result for each sub-request.
BatchResponse(chunk) ==
  [t |-> "object", v |-> [j \in 1 .. Len(chunk) |-> [of |-> chunk[j].url]]]

\* library.js:217: the first chunk's response is kept; for a later chunk
\* batchResponses.results.concat(...) builds a new array that is dropped.
Merge(batchResponses, thisResponse) ==
  IF Falsy(batchResponses) THEN thisResponse ELSE batchResponses

\* library.js:212-216: one turn of the loop up to the await of _post.
MutBatchTurn(k, req) ==
  LET sp == Splice(k.arr, BatchChunk + 1)
      r == NewRequest("post", req)
  IN  [call |-> [k EXCEPT !.arr = sp.rest, !.sent = Append(@, sp.removed),
                          !.task = r.task, !.pc = "await"],
       requests |-> r.requests]
BatchTurn(k, req) ==
  LET sp == Splice(k.arr, BatchChunk)
      r == NewRequest("post", req)
  IN  [call |-> [k EXCEPT !.arr = sp.rest, !.sent = Append(@, sp.removed),
                          !.task = r.task, !.pc = "await"],
       requests |-> r.requests]

\* library.js:203-216 up to the first await.  requests[0].method of an empty
\* array throws a TypeError outside the try.
BatchStart(c, bare, n) ==
  /\ CanStart(c)
  /\ LET k == [NewCall("batch") EXCEPT !.input = BatchInput(bare, n), !.acc = False]
     IN  IF n = 0
           THEN /\ calls' = [calls EXCEPT ![c] = Rejected(k, "TypeError")]
                /\ UNCHANGED _requests
           ELSE LET b == BatchTurn([k EXCEPT !.arr = Normalise(k.input)], _requests)
                IN  /\ calls' = [calls EXCEPT ![c] = b.call]
                    /\ _requests' = b.requests
  /\ started' = started + 1
  /\ UNCHANGED <<_requestErrors, this, detached, overlap, failures, construction>>

\* library.js:218: _requests-- after a chunk's response.
MutUncount(req) == req
Uncount(req) == req - 1

\* library.js:216-227 from a chunk's response: merge, uncount the chunk,
\* then either post the next chunk or count the batch and return.
BatchChunkDone(c) ==
  /\ Awaiting(c) /\ calls[c].op = "batch" /\ NoTick
  /\ LET k == calls[c]
         k1 == [k EXCEPT !.task = AttemptOk(k.task),
                         !.acc = Merge(k.acc, BatchResponse(k.sent[Len(k.sent)]))]
         req1 == Uncount(_requests)
     IN  IF Len(k1.arr) > 0
           THEN LET b == BatchTurn(k1, req1)
                IN  /\ calls' = [calls EXCEPT ![c] = b.call]
                    /\ _requests' = b.requests
           ELSE /\ calls' = [calls EXCEPT ![c] = Resolved(k1, k1.acc)]
                /\ _requests' = req1 + 1
  /\ UNCHANGED <<_requestErrors, this, detached, started, overlap, failures,
                 construction>>

\* library.js:62-69 then 219-222: the chunk's last attempt failed.
BatchFail(c) ==
  /\ TransportFails
  /\ Awaiting(c) /\ calls[c].op = "batch" /\ NoTick
  /\ LET r == AttemptFailed(calls[c].task, _requests, _requestErrors)
         k == [calls[c] EXCEPT !.task = r.task]
     IN  /\ r.thrown
         /\ _requests' = r.requests
         /\ _requestErrors' = r.errors
         /\ calls' = [calls EXCEPT ![c] =
                        Rejected([k EXCEPT !.lost = Len(k.sent)],
                                 "Salesforce batch request failed!")]
  /\ UNCHANGED <<this, detached, started, overlap, construction>>

\* ------------------------------------------------- insert and update
Null == [t |-> "null", v |-> <<>>]
\* The record at position i of the caller's array is written i, and -i when
\* it has no attributes.type.
Rec(i, typed) == IF typed THEN i ELSE 0 - i
HasType(r) == r > 0
Single(typed) == [t |-> "record", v |-> <<Rec(1, typed)>>]
Records(n) == Arr([i \in 1 .. n |-> Rec(i, TRUE)])
Untyped == Arr(<<Rec(1, FALSE), Rec(2, TRUE)>>)

RecordInputs ==
  {Null, Single(TRUE), Single(FALSE), Arr(<<>>), Untyped}
    \cup {Records(n) : n \in Lens(RecordChunk)}

\* library.js:237 and :271: one record with attributes.type becomes [record].
Promote(oRecords) ==
  IF oRecords.t = "record" /\ HasType(oRecords.v[1]) THEN Arr(oRecords.v) ELSE oRecords

\* library.js:239 and :273, on the promoted value: what is thrown, "" if nothing.
\* [][0].attributes throws a TypeError of its own.
MutInvalid(oRecords) ==
  IF oRecords.t = "null" \/ ~IsArray(oRecords) THEN "Error"
  ELSE IF Len(oRecords.v) = 0 THEN "TypeError"
  ELSE ""
Invalid(oRecords) ==
  IF oRecords.t = "null" \/ ~IsArray(oRecords) THEN "Error"
  ELSE IF Len(oRecords.v) = 0 THEN "TypeError"
  ELSE IF ~HasType(oRecords.v[1]) THEN "Error"
  ELSE ""

\* The server's answer to composite/sobjects: one save result for each
\* record, written 1000 + i for record i.
UpdateResponse(chunk) == Arr([j \in 1 .. Len(chunk) |-> 1000 + chunk[j]])

\* library.js:283-286 (and 249-252): one turn of the loop up to the call of
\* _post.  The receiver of concat is read before the argument is evaluated.
MutRecordTurn(k, receiver, req) ==
  LET sp == Splice(k.arr, RecordChunk - 1)
      r == NewRequest("post", req)
  IN  [call |-> [k EXCEPT !.arr = sp.rest, !.sent = Append(@, sp.removed),
                          !.acc = receiver, !.task = r.task],
       requests |-> r.requests]
RecordTurn(k, receiver, req) ==
  LET sp == Splice(k.arr, RecordChunk)
      r == NewRequest("post", req)
  IN  [call |-> [k EXCEPT !.arr = sp.rest, !.sent = Append(@, sp.removed),
                          !.acc = receiver, !.task = r.task],
       requests |-> r.requests]

\* library.js:269-286 up to the first await.
UpdateStart(c, oRecords) ==
  /\ CanStart(c)
  /\ LET recs == Promote(oRecords)
         k == [NewCall("update") EXCEPT !.pc = "await",
                                        !.before = this.updateResults]
     IN  IF Invalid(recs) # ""
           THEN /\ calls' = [calls EXCEPT ![c] = Rejected(k, Invalid(recs))]
                /\ UNCHANGED <<_requests, this>>
           ELSE LET b == RecordTurn([k EXCEPT !.input = recs.v, !.arr = recs.v],
                                    Arr(<<>>), _requests)
                IN  /\ this' = [this EXCEPT !.updateResults = Arr(<<>>)]
                    /\ calls' = [calls EXCEPT ![c] = b.call]
                    /\ _requests' = b.requests
  /\ started' = started + 1
  /\ UNCHANGED <<_requestErrors, detached, overlap, failures, construction>>

\* library.js:283-288 from a chunk's response.
UpdateChunkDone(c) ==
  /\ Awaiting(c) /\ calls[c].op = "update" /\ NoTick
  /\ LET k == calls[c]
         res == UpdateResponse(k.sent[Len(k.sent)])
         k1 == [k EXCEPT !.task = AttemptOk(k.task)]
         results == Concat(k.acc, res)
     IN  /\ this' = [this EXCEPT !.updateResults = results]
         /\ IF Len(k1.arr) > 0
              THEN LET b == RecordTurn(k1, results, _requests)
                   IN  /\ calls' = [calls EXCEPT ![c] = b.call]
                       /\ _requests' = b.requests
              ELSE /\ calls' = [calls EXCEPT ![c] = Resolved(k1, results)]
                   /\ UNCHANGED _requests
  /\ UNCHANGED <<_requestErrors, detached, started, overlap, failures, construction>>

\* library.js:62-69 then 289-293: the chunk's last attempt failed.
UpdateFail(c) ==
  /\ TransportFails
  /\ Awaiting(c) /\ calls[c].op = "update" /\ NoTick
  /\ LET r == AttemptFailed(calls[c].task, _requests, _requestErrors)
         k == [calls[c] EXCEPT !.task = r.task]
     IN  /\ r.thrown
         /\ _requests' = r.requests
         /\ _requestErrors' = r.errors
         /\ this' = [this EXCEPT !.updateResults = False]
         /\ calls' = [calls EXCEPT ![c] =
                        Rejected([k EXCEPT !.lost = Len(k.sent)],
                                 "Salesforce update failed!")]
  /\ UNCHANGED <<detached, started, overlap, construction>>

\* A promise nobody awaits is forgotten once it has settled.
Pending(ds) == SelectSeq(ds, LAMBDA t : t.st = "inflight")

\* The request insert has just made for its newest chunk, and awaits not.
Unawaited(k) == [k.task EXCEPT !.owner = k.id, !.chunk = Len(k.sent)]

\* library.js:235-252 up to the first await.  `await _post(url, payload).results`
\* awaits the .results property of the promise _post returns, which is
\* undefined: the POST is started and left behind, and the function goes on
\* one microtask later.  The array is built in this.insertReults.
InsertStart(c, oRecords) ==
  /\ CanStart(c)
  /\ LET recs == Promote(oRecords)
         k == [NewCall("insert") EXCEPT !.pc = "tick",
                                        !.before = this.insertResults]
     IN  IF Invalid(recs) # ""
           THEN /\ calls' = [calls EXCEPT ![c] = Rejected(k, Invalid(recs))]
                /\ UNCHANGED <<_requests, this, detached>>
           ELSE LET b == RecordTurn([k EXCEPT !.input = recs.v, !.arr = recs.v],
                                    Arr(<<>>), _requests)
                IN  /\ this' = [this EXCEPT !.insertReults = Arr(<<>>)]
                    /\ calls' = [calls EXCEPT ![c] = [b.call EXCEPT !.task = NoTask]]
                    /\ detached' = Append(detached, Unawaited(b.call))
                    /\ _requests' = b.requests
  /\ started' = started + 1
  /\ UNCHANGED <<_requestErrors, overlap, failures, construction>>

\* library.js:252-254 after `await undefined`: append undefined, then start
\* the next chunk's POST or return this.insertReults.
InsertTick(c) ==
  /\ Running(c) /\ calls[c].op = "insert" /\ calls[c].pc = "tick"
  /\ LET k == calls[c]
         results == Concat(k.acc, Undefined)
     IN  /\ this' = [this EXCEPT !.insertReults = results]
         /\ IF Len(k.arr) > 0
              THEN LET b == RecordTurn(k, results, _requests)
                   IN  /\ calls' = [calls EXCEPT ![c] = [b.call EXCEPT !.task = NoTask]]
                       /\ detached' = Append(detached, Unawaited(b.call))
                       /\ _requests' = b.requests
              ELSE /\ calls' = [calls EXCEPT ![c] = Resolved(k, results)]
                   /\ UNCHANGED <<_requests, detached>>
  /\ UNCHANGED <<_requestErrors, started, overlap, failures, construction>>

\* ------------------------------------------- requests nobody awaits
DetachedInFlight(i) == i \in 1 .. Len(detached) /\ detached[i].st = "inflight" /\ NoTick

\* The response is dropped.
DetachedDone(i) ==
  /\ DetachedInFlight(i)
  /\ detached' = Pending([detached EXCEPT ![i] = AttemptOk(@)])
  /\ UNCHANGED <<_requests, _requestErrors, this, calls, started, overlap, failures,
                 construction>>

\* library.js:62-69: retried, or thrown into a promise without a handler.
DetachedFailed(i) ==
  /\ TransportFails
  /\ DetachedInFlight(i)
  /\ LET r == AttemptFailed(detached[i], _requests, _requestErrors)
     IN  /\ detached' = Pending([detached EXCEPT ![i] = r.task])
         /\ _requests' = r.requests
         /\ _requestErrors' = r.errors
         /\ calls' = [c \in Calls |->
                        IF r.thrown /\ calls[c].id = r.task.owner /\ calls[c].lost = 0
                          THEN [calls[c] EXCEPT !.lost = r.task.chunk]
                          ELSE calls[c]]
  /\ UNCHANGED <<this, started, overlap, construction>>

\* ------------------------------------------------------------ the session
\* library.js:9: the default of _instanceUrl, 'https://test.salesforce.com'.
DefaultInstanceUrl == Str(50, InstanceUrlLen)
\* The redirect the README's salesforceSession() reads off the page: its
\* fragment names the organisation's instance, 'https://na1.salesforce.com'.
Redirect == [instance_url |-> Str(51, InstanceUrlLen - 1)]
\* No second argument, as in the README.
NoConfig == [_instanceUrl |-> Undefined]

\* library.js:8-12 and 29-35: the fragment's pairs go into _OAuthVars, then
\* _instanceUrl, which holds its default when the configuration names none,
\* replaces instance_url whenever it is truthy.  (The assignment to the
\* undeclared _OAuthVarPairs at :29 needs a global of that name in strict
\* mode; a session exists only on a page that has one.)
Construct(oauthUrl, cfg) ==
  LET _instanceUrl == Default(cfg._instanceUrl, DefaultInstanceUrl)
  IN  IF ~Falsy(_instanceUrl)
        THEN [oauthUrl EXCEPT !.instance_url = _instanceUrl]
        ELSE oauthUrl

InitSession ==
  /\ _OAuthUrl = Redirect
  /\ config = NoConfig
  /\ _OAuthVars = Construct(_OAuthUrl, config)
  /\ _requests = 0
  /\ _requestErrors = 0
  /\ this = [records |-> Undefined, searchRecords |-> Undefined,
             insertResults |-> Undefined, updateResults |-> Undefined,
             soql |-> Undefined, sosl |-> Undefined, insertReults |-> Undefined]
  /\ calls = [c \in Calls |-> IdleCall]
  /\ detached = <<>>
  /\ started = 0
  /\ failures = 0

Init == InitSession /\ overlap = FALSE

Next ==
  \/ \E c \in Calls, arg \in Soqls \cup {Undefined} : QueryStart(c, arg)
  \/ \E c \in Calls, n \in PageLens, more \in BOOLEAN : QueryPage(c, n, more)
  \/ \E c \in Calls, arg \in Soqls \cup {Undefined} : SearchStart(c, arg)
  \/ \E c \in Calls, n \in PageLens, more \in BOOLEAN : SearchPage(c, n, more)
  \/ \E c \in Calls : Retry(c)
  \/ \E c \in Calls : PageFail(c)
  \/ \E c \in Calls, in \in BatchInputs : BatchStart(c, in[1], in[2])
  \/ \E c \in Calls : BatchChunkDone(c)
  \/ \E c \in Calls : BatchFail(c)
  \/ \E c \in Calls, oRecords \in RecordInputs : UpdateStart(c, oRecords)
  \/ \E c \in Calls : UpdateChunkDone(c)
  \/ \E c \in Calls : UpdateFail(c)
  \/ \E c \in Calls, oRecords \in RecordInputs : InsertStart(c, oRecords)
  \/ \E c \in Calls : InsertTick(c)
  \/ \E i \in 1 .. Len(detached) : DetachedDone(i)
  \/ \E i \in 1 .. Len(detached) : DetachedFailed(i)

Spec == Init /\ [][Next]_vars

\* The event loop delivers the outcome of every fetch: a request that stays
\* in flight gets its response unless one of its attempts fails first.
Fairness ==
  /\ WF_vars(\E c \in Calls, n \in PageLens, more \in BOOLEAN : QueryPage(c, n, more))
  /\ WF_vars(\E c \in Calls, n \in PageLens, more \in BOOLEAN : SearchPage(c, n, more))

\* The caller starts operations while earlier ones are still in flight.
InitOverlap == InitSession /\ overlap = TRUE

SpecOverlap == InitOverlap /\ [][Next]_vars

\* query and search in a session whose caller awaits each operation, where
\* nothing else runs beside them.
NextPages ==
  \/ \E c \in Calls, arg \in Soqls \cup {Undefined} : QueryStart(c, arg)
  \/ \E c \in Calls, n \in PageLens, more \in BOOLEAN : QueryPage(c, n, more)
  \/ \E c \in Calls, arg \in Soqls \cup {Undefined} : SearchStart(c, arg)
  \/ \E c \in Calls, n \in PageLens, more \in BOOLEAN : SearchPage(c, n, more)
  \/ \E c \in Calls : Retry(c)
  \/ \E c \in Calls : PageFail(c)

SpecFair == Init /\ [][NextPages]_vars /\ Fairness

\* ====================================================================
\* Properties
\* ====================================================================
\* Every logical call of _request that is in flight or has settled.
Tasks ==
  {calls[c].task : c \in {d \in Calls : calls[d].task.st # "none"}}
    \cup {detached[i] : i \in 1 .. Len(detached)}

Settled(c) == calls[c].st \in {"resolved", "rejected"}

\* The last-result field that belongs to the operation in slot c.
FieldOf(c) ==
  CASE calls[c].op = "query" -> this.records
    [] calls[c].op = "search" -> this.searchRecords
    [] calls[c].op = "insert" -> this.insertResults
    [] calls[c].op = "update" -> this.updateResults
    [] OTHER -> Undefined

RECURSIVE Flat(_)
Flat(ss) == IF ss = <<>> THEN <<>> ELSE Head(ss) \o Flat(Tail(ss))

Ceil(a, b) == (a + b - 1) \div b

\* The record lists of the pages the server has handed to the call, in order.
PagesOf(k) == Flat([i \in 1 .. Len(k.served) |-> k.served[i].records.v])

\* The server's answer to composite/tree: one created record for each
\* record, written 2000 + i for record i.
InsertResponse(chunk) ==
  [t |-> "object", v |-> [j \in 1 .. Len(chunk) |-> 2000 + chunk[j]]]

\* C1: a logical call of _request invokes the transport at most 4 times; a
\* further attempt is made only after the previous one failed, so while the
\* call is in flight or once it has returned a response the attempts are the
\* failures plus one; it throws only after 4 failed attempts.
C1_AtMostFourAttempts ==
  \A t \in Tasks :
    /\ t.attempts <= 4
    /\ t.st \in {"inflight", "ok"} => t.attempts = t.fails + 1
    /\ t.st = "failed" => t.attempts = 4 /\ t.fails = 4

C1_Witness ==
  \E c \in Calls : calls[c].task.st = "failed" /\ calls[c].task.attempts = 4

\* C2 as stated: a settled logical call that saw k failed attempts has raised
\* _requests by exactly 1 and _requestErrors by exactly k.
C2_OneRequestPerCall ==
  \A t \in Tasks : t.st \in {"ok", "failed"} => t.nReq = 1 /\ t.nErr = t.fails

\* C2 amended: a logical call raises _requests once for every transport
\* attempt it makes and _requestErrors once for every failed attempt: k + 1
\* and k when an attempt succeeds after k failures, 4 and 4 when all fail.
C2_CountsPerAttempt ==
  \A t \in Tasks :
    /\ t.nReq = t.attempts
    /\ t.nErr = t.fails
    /\ t.st = "ok" => t.nReq = t.fails + 1 /\ t.fails <= 3
    /\ t.st = "failed" => t.nReq = 4 /\ t.nErr = 4

C2_Witness ==
  \E c \in Calls :
    /\ calls[c].task.st = "ok" /\ calls[c].task.fails = 3
    /\ calls[c].task.nReq = 4 /\ calls[c].task.nErr = 3

\* C3: when a query or search whose page fetches all succeeded has completed,
\* the server's chain of pages has been followed to its end and the stored
\* last result is the pages' record lists concatenated in page order.
C3_PagesConcatenated ==
  \A c \in Calls :
    (calls[c].op \in {"query", "search"} /\ Settled(c) /\ calls[c].task.st = "ok")
      => /\ calls[c].st = "resolved"
         /\ calls[c].served[Len(calls[c].served)].nextRecordsUrl = Undefined
         /\ FieldOf(c) = Arr(PagesOf(calls[c]))

\* C4: a query or search one of whose page fetches failed after the retries
\* rejects, and its last-result field then holds false and no page.
C4_FailedFetchStoresFalse ==
  \A c \in Calls :
    (calls[c].op \in {"query", "search"} /\ calls[c].task.st = "failed")
      => calls[c].st = "rejected" /\ FieldOf(c) = False

C4_Witness ==
  \E c \in Calls :
    /\ calls[c].op = "query" /\ calls[c].task.st = "failed"
    /\ calls[c].st = "rejected" /\ this.records = False
    /\ calls[c].before # False

\* C5: while a query, search, insert or update is running its last-result
\* field holds the value it had before the operation started, and once the
\* operation has resolved the field holds the complete result it returned.
C5_NoPartialResult ==
  \A c \in Calls :
    calls[c].op \in {"query", "search", "insert", "update"}
      => /\ Running(c) => FieldOf(c) = calls[c].before
         /\ calls[c].st = "resolved" /\ calls[c].op \in {"insert", "update"}
              => FieldOf(c) = calls[c].ret

\* C6: a query or search that resolves returns the sequence stored in its
\* last-result field.
C6_ReturnsStored ==
  \A c \in Calls :
    (calls[c].op \in {"query", "search"} /\ calls[c].st = "resolved")
      => calls[c].ret = FieldOf(c)

\* C7: a batch of L >= 1 sub-requests whose chunk calls all succeeded made
\* ceil(L/25) chunk calls, none with more than 25 sub-requests, and the
\* chunks in issue order are the input in its original order.
C7_BatchChunks ==
  \A c \in Calls :
    (calls[c].op = "batch" /\ calls[c].st = "resolved")
      => /\ Len(calls[c].sent) = Ceil(Len(calls[c].input), 25)
         /\ \A i \in 1 .. Len(calls[c].sent) :
              Len(calls[c].sent[i]) \in 1 .. 25
         /\ Flat(calls[c].sent) = Normalise(calls[c].input)

C7_Witness ==
  \E c \in Calls :
    /\ calls[c].op = "batch" /\ calls[c].st = "resolved"
    /\ Len(calls[c].input) = 26 /\ Len(calls[c].sent) = 2

\* C8: the results array of the response a successful batch returns is the
\* chunk responses' results arrays concatenated in submission order.
C8_AggregateIsConcatenation ==
  \A c \in Calls :
    (calls[c].op = "batch" /\ calls[c].st = "resolved")
      => calls[c].ret.v =
           Flat([i \in 1 .. Len(calls[c].sent) |-> BatchResponse(calls[c].sent[i]).v])

\* C9: an insert or update of L >= 1 valid records that has resolved made
\* ceil(L/200) chunk calls, none with more than 200 records, and the chunks
\* in issue order are the input in its original order.
C9_RecordChunks ==
  \A c \in Calls :
    (calls[c].op \in {"insert", "update"} /\ calls[c].st = "resolved")
      => /\ Len(calls[c].sent) = Ceil(Len(calls[c].input), 200)
         /\ \A i \in 1 .. Len(calls[c].sent) :
              Len(calls[c].sent[i]) \in 1 .. 200
         /\ Flat(calls[c].sent) = calls[c].input

C9_Witness ==
  \E c \in Calls :
    /\ calls[c].op = "update" /\ calls[c].st = "resolved"
    /\ Len(calls[c].input) = 201 /\ Len(calls[c].sent) = 2

\* C10: an insert or update whose chunk calls all succeeded returns, and
\* leaves in insertResults or updateResults, the chunk responses concatenated
\* in order: each response's results for insert, the raw response for update.
C10_ResultsAreConcatenation ==
  \A c \in Calls :
    (calls[c].op \in {"insert", "update"} /\ calls[c].st = "resolved"
       /\ (calls[c].op = "insert" => detached = <<>> /\ failures = 0))
      => /\ calls[c].ret = FieldOf(c)
         /\ calls[c].ret.v =
              Flat([i \in 1 .. Len(calls[c].sent) |->
                      IF calls[c].op = "insert"
                        THEN InsertResponse(calls[c].sent[i]).v
                        ELSE UpdateResponse(calls[c].sent[i]).v])

\* C11: an insert or update one of whose chunk POSTs failed after the
\* executor's retries has rejected, has issued no chunk after the one that
\* failed, and its last-results field holds false.
C11_ChunkFailureRejects ==
  \A c \in Calls :
    (calls[c].op \in {"insert", "update"} /\ calls[c].lost > 0)
      => /\ calls[c].st = "rejected"
         /\ Len(calls[c].sent) = calls[c].lost
         /\ FieldOf(c) = False

\* C12: an insert or update whose input is missing, is no array after the
\* promotion of a single record, or is an array that is empty or whose first
\* element has no attributes.type, rejects in the step that starts it: no
\* request is made, awaited or left behind, and the request counter, the
\* error counter and the session's fields are as they were.
C12_InvalidInputTouchesNothing ==
  [][\A c \in Calls, o \in RecordInputs :
       LET missing == o.t = "null"
           noArray == o.t = "record" /\ ~HasType(o.v[1])
           noType == o.t = "array" /\ (o.v = <<>> \/ ~HasType(o.v[1]))
       IN  ((missing \/ noArray \/ noType) /\ (InsertStart(c, o) \/ UpdateStart(c, o)))
             => /\ calls'[c].st = "rejected"
                /\ calls'[c].task = NoTask /\ calls'[c].sent = <<>>
                /\ UNCHANGED <<_requests, _requestErrors, this, detached>>]_vars

C12_Witness ==
  \E c \in Calls :
    /\ calls[c].op = "update" /\ calls[c].st = "rejected"
    /\ calls[c].err = "TypeError" /\ calls[c].task = NoTask
    /\ calls[c].req0 > 0 /\ _requests = calls[c].req0
    /\ this.updateResults = calls[c].before /\ IsArray(this.updateResults)

\* C13: a query or search whose URL is longer than 2048 characters sends no
\* GET: its one request is a POST (to the composite-batch endpoint), and the
\* operation goes on with the sub-response's result as it would with the
\* response of a GET, so it does not fail unless the transport does.
C13_OversizedGoesThroughBatch ==
  \A c \in Calls :
    (/\ calls[c].op \in {"query", "search"}
     /\ Oversized(IF calls[c].op = "query" THEN QueryActionLen(calls[c].q)
                                            ELSE SearchActionLen(calls[c].q)))
      => /\ calls[c].task.method = "post"
         /\ calls[c].st = "rejected" => calls[c].task.st = "failed"

\* C14 as stated: a batch that has completed successfully has left _requests
\* exactly 1 higher than it found it, whatever the retries inside its chunks.
C14_BatchCountsOne ==
  \A c \in Calls :
    (calls[c].op = "batch" /\ calls[c].st = "resolved")
      => _requests = calls[c].req0 + 1

\* C14 amended: a batch that has completed successfully has left _requests
\* higher than it found it by 1 plus the number of transport attempts that
\* failed inside its chunks (each of which also raised _requestErrors), so
\* by exactly 1 when no attempt failed, whatever the number of chunks.
C14_BatchCountsOnePlusRetries ==
  \A c \in Calls :
    (calls[c].op = "batch" /\ calls[c].st = "resolved")
      => _requests - calls[c].req0 = 1 + (_requestErrors - calls[c].err0)

C14_Witness ==
  \E c \in Calls :
    /\ calls[c].op = "batch" /\ calls[c].st = "resolved"
    /\ Len(calls[c].sent) = 2
    /\ _requestErrors - calls[c].err0 = 2
    /\ _requests - calls[c].req0 = 3

\* C15: at no moment does one query, search, batch, insert or update have
\* more than one of its transport calls in flight.
C15_OneInFlightPerOperation ==
  \A c \in Calls :
    calls[c].op # "none"
      => Cardinality({i \in 1 .. Len(detached) :
                        detached[i].owner = calls[c].id /\ detached[i].st = "inflight"})
           + (IF calls[c].task.st = "inflight" THEN 1 ELSE 0) <= 1

\* C16: the string a query (a search) executes is its argument, or what soql
\* (sosl) held at the call when no argument is given; from the start of the
\* operation, so before its first transport call, and after it has resolved
\* or rejected, soql (sosl) holds that string.
C16_ExecutedStringStored ==
  \A c \in Calls :
    calls[c].op \in {"query", "search"}
      => /\ calls[c].q = (IF calls[c].arg = Undefined THEN calls[c].held
                                                      ELSE calls[c].arg)
         /\ calls[c].op = "query" => this.soql = calls[c].q
         /\ calls[c].op = "search" => this.sosl = calls[c].q

C16_Witness ==
  \E c \in Calls :
    /\ calls[c].op = "query" /\ calls[c].arg = Undefined
    /\ calls[c].held.t = "string" /\ this.soql = calls[c].held
    /\ calls[c].task.st = "failed" /\ calls[c].st = "rejected"

\* C17: in a session constructed without an instance-URL override, the URL
\* of every request starts with the instance URL of the redirect fragment,
\* and _OAuthVars holds that instance URL.
C17_FragmentInstanceUrlUsed ==
  config._instanceUrl = Undefined
    => /\ _OAuthVars.instance_url = _OAuthUrl.instance_url
       /\ \A t \in Tasks : t.url = _OAuthUrl.instance_url

\* C18: when every transport call completes, every query and every search
\* that has started resolves or rejects; and it has done so by the time a
\* page has been handed to it, with or without a cursor, so that no page is
\* fetched a second time.
C18_QueryAndSearchComplete ==
  /\ \A c \in Calls :
       (Running(c) /\ calls[c].op \in {"query", "search"}) ~> Settled(c)
  /\ [](\A c \in Calls :
          (calls[c].op \in {"query", "search"} /\ Len(calls[c].served) > 0)
            => Settled(c) /\ Len(calls[c].served) = 1)

C18_Witness ==
  \E c \in Calls :
    /\ calls[c].op = "search" /\ calls[c].st = "rejected"
    /\ Len(calls[c].served) = 1
    /\ calls[c].served[1].nextRecordsUrl # Undefined
    /\ calls[c].task.fails > 0

\* C19 as stated: the array passed to batch, insert or update is empty when
\* the operation has resolved, and when chunk k of update or batch has failed
\* it holds the elements that were passed in after those of chunks 1..k, in
\* their order.
C19_OriginalElementsRemain ==
  \A c \in Calls :
    (calls[c].op \in {"batch", "insert", "update"} /\ Len(calls[c].sent) > 0)
      => LET passed == calls[c].input
             size == IF calls[c].op = "batch" THEN 25 ELSE 200
         IN  /\ calls[c].st = "resolved" => Len(calls[c].arr) = 0
             /\ (calls[c].st = "rejected" /\ calls[c].op # "insert")
                  => calls[c].arr =
                       SubSeq(passed, Min(calls[c].lost * size, Len(passed)) + 1,
                              Len(passed))

\* C19 amended: batch, insert and update take their chunks off the caller's
\* array, which batch has first rewritten in place into GET sub-requests
\* when it was given bare paths: at every moment the chunks issued so far,
\* in order, followed by what the array still holds are the array as passed
\* in (as rewritten, for batch); the array is empty when the operation has
\* resolved; and when chunk k of update or batch has failed, the array has
\* lost chunks 1..k and holds the rest.
C19_CallerArrayConsumed ==
  \A c \in Calls :
    (calls[c].op \in {"batch", "insert", "update"} /\ Len(calls[c].sent) > 0)
      => LET passed == IF calls[c].op = "batch" THEN Normalise(calls[c].input)
                                                ELSE calls[c].input
             size == IF calls[c].op = "batch" THEN 25 ELSE 200
         IN  /\ Flat(calls[c].sent) \o calls[c].arr = passed
             /\ calls[c].st = "resolved" => Len(calls[c].arr) = 0
             /\ (calls[c].st = "rejected" /\ calls[c].op # "insert")
                  => /\ calls[c].lost = Len(calls[c].sent)
                     /\ calls[c].arr =
                          SubSeq(passed, Min(calls[c].lost * size, Len(passed)) + 1,
                                 Len(passed))

C19_Witness ==
  \E c \in Calls :
    /\ calls[c].op = "update" /\ calls[c].st = "rejected"
    /\ calls[c].lost = 1 /\ Len(calls[c].input) = 201
    /\ calls[c].arr = <<Rec(201, TRUE)>>

\* C20: whatever operations the caller starts, overlapping or not, and
\* whichever transport attempts fail, 0 <= _requestErrors <= _requests in
\* every state; the difference is never less than the number of attempts
\* in flight, so the decrement batch makes for a chunk that has just been
\* answered cannot take _requests below _requestErrors.
C20_ErrorsWithinRequests ==
  /\ 0 <= _requestErrors
  /\ _requestErrors <= _requests
  /\ _requests - _requestErrors >= Cardinality({c \in Calls : calls[c].task.st = "inflight"})
                                     + Len(detached)

C20_Witness ==
  \E c, d \in Calls :
    /\ calls[d].op = "update" /\ calls[d].id = 1 /\ Awaiting(d)
    /\ calls[c].op = "batch" /\ calls[c].id = 2 /\ calls[c].st = "rejected"
    /\ Len(calls[c].sent) = 2
    /\ _requestErrors = 4 /\ _requests = 5

====
